---- MODULE Spec2Model ----
(***************************************************************************)
(* Model of phone.validator.ai.py: the PhoneValidator class (construction, *)
(* CSV reading, the call -> recording -> download -> transcription ->      *)
(* classification pipeline of one number, and the batch loop of            *)
(* process_phone_list) and main().                                         *)
(*                                                                         *)
(* A Python str is a sequence of Unicode code points (naturals); None is   *)
(* the one-element sequence <<-1>>, which no str equals.  The telephony    *)
(* provider, the HTTP download, the speech service and the file system are *)
(* the environment: every call to them is a choice over the outcomes it    *)
(* can have.  The timestamp column (datetime.now()) and the log are not    *)
(* modelled; no property below reads them.                                 *)
(***************************************************************************)
EXTENDS Integers, Sequences, FiniteSets, TLC

None == << -1 >>

\* Python truth value of a str-or-None: `not x'
Falsy(x) == x = None \/ x = << >>

\* ------------------------------------------------------------------ bounds
\* rows of the input table
MaxRows == 3
\* length of the free-form texts handed to the classifier
MaxShortLen == 3
\* length of the text put before and after a denylist phrase
MaxAffix == 1

\* ------------------------------------------------------- program constants
call_delay == 2
recording_duration == 10
\* len(transcribed_text.strip()) < 3
MinTextLen == 3

required_vars ==
    << "TWILIO_ACCOUNT_SID", "TWILIO_AUTH_TOKEN",
       "TWILIO_PHONE_NUMBER", "OPENAI_API_KEY" >>

\* self.invalid_phrases, as code points
InvalidPhrases == <<
    <<1085, 1077, 1076, 1086, 1089, 1090, 1091, 1087, 1085, 1080, 1081>>,
    <<1085, 1086, 1084, 1077, 1088, 32, 1085, 1077, 32, 1086, 1073, 1089, 1083, 1091, 1075, 1086, 1074, 1091, 1108, 1090, 1100, 1089, 1103>>,
    <<1085, 1077, 1074, 1110, 1088, 1085, 1086, 32, 1085, 1072, 1073, 1088, 1072, 1085, 1080, 1081>>,
    <<1087, 1086, 1079, 1072, 32, 1079, 1086, 1085, 1086, 1102>>,
    <<1072, 1073, 1086, 1085, 1077, 1085, 1090, 32, 1074, 1110, 1076, 1089, 1091, 1090, 1085, 1110, 1081>>,
    <<1085, 1086, 1084, 1077, 1088, 32, 1074, 1110, 1076, 1082, 1083, 1102, 1095, 1077, 1085, 1080, 1081>>,
    <<1085, 1077, 1087, 1088, 1072, 1074, 1080, 1083, 1100, 1085, 1080, 1081, 32, 1085, 1086, 1084, 1077, 1088>>,
    <<1085, 1077, 32, 1110, 1089, 1085, 1091, 1108>>,
    <<1090, 1080, 1084, 1095, 1072, 1089, 1086, 1074, 1086, 32, 1085, 1077, 1076, 1086, 1089, 1090, 1091, 1087, 1085, 1080, 1081>>,
    <<1085, 1086, 1084, 1077, 1088, 32, 1079, 1072, 1073, 1083, 1086, 1082, 1086, 1074, 1072, 1085, 1080, 1081>>,
    <<1087, 1086, 1089, 1083, 1091, 1075, 1072, 32, 1085, 1077, 1076, 1086, 1089, 1090, 1091, 1087, 1085, 1072>> >>

\* ------------------------------------------------------------ str methods
\* str.isspace() of one code point
IsSpace(c) ==
    \/ c \in 9..13
    \/ c \in 28..32
    \/ c \in {133, 160, 5760, 8232, 8233, 8239, 8287, 12288}
    \/ c \in 8192..8202

\* str.lower() of one code point: Basic Latin and the Cyrillic block
LowerChar(c) ==
    IF c \in 65..90 THEN c + 32
    ELSE IF c \in 1024..1039 THEN c + 80
    ELSE IF c \in 1040..1071 THEN c + 32
    ELSE IF c = 1168 THEN 1169
    ELSE c

UpperChar(c) ==
    IF c \in 97..122 THEN c - 32
    ELSE IF c \in 1104..1119 THEN c - 80
    ELSE IF c \in 1072..1103 THEN c - 32
    ELSE IF c = 1169 THEN 1168
    ELSE c

lower(s) == [k \in 1..Len(s) |-> LowerChar(s[k])]

upper(s) == [k \in 1..Len(s) |-> UpperChar(s[k])]

RECURSIVE lstrip(_)
lstrip(s) ==
    IF s = << >> THEN << >>
    ELSE IF IsSpace(Head(s)) THEN lstrip(Tail(s))
    ELSE s

RECURSIVE rstrip(_)
rstrip(s) ==
    IF s = << >> THEN << >>
    ELSE IF IsSpace(s[Len(s)]) THEN rstrip(SubSeq(s, 1, Len(s) - 1))
    ELSE s

strip(s) == rstrip(lstrip(s))

\* s[k:].startswith(p), k counted from 1
StartsWithAt(s, p, k) ==
    /\ k + Len(p) - 1 <= Len(s)
    /\ \A j \in 1..Len(p) : s[k + j - 1] = p[j]

\* `p in s': scan the start positions left to right
RECURSIVE FindFrom(_, _, _)
FindFrom(s, p, k) ==
    IF k + Len(p) - 1 > Len(s) THEN FALSE
    ELSE IF StartsWithAt(s, p, k) THEN TRUE
    ELSE FindFrom(s, p, k + 1)

In(p, s) == FindFrom(s, p, 1)

\* ------------------------------------------------------- is_valid_number
\* for phrase in self.invalid_phrases: if phrase in text_lower: return False
RECURSIVE PhraseLoop(_, _, _)
PhraseLoop(phrases, k, text_lower) ==
    IF k > Len(phrases) THEN FALSE
    ELSE IF In(phrases[k], text_lower) THEN TRUE
    ELSE PhraseLoop(phrases, k + 1, text_lower)

\* is_valid_number matching the phrases against the text as given
is_valid_number_nolower(phrases, transcribed_text) ==
    IF transcribed_text = << >> THEN FALSE
    ELSE IF PhraseLoop(phrases, 1, transcribed_text) THEN FALSE
    ELSE IF Len(strip(transcribed_text)) < MinTextLen THEN FALSE
    ELSE TRUE

is_valid_number(phrases, transcribed_text) ==
    IF transcribed_text = << >> THEN FALSE
    ELSE IF PhraseLoop(phrases, 1, lower(transcribed_text)) THEN FALSE
    ELSE IF Len(strip(transcribed_text)) < MinTextLen THEN FALSE
    ELSE TRUE

\* ---------------------------------------------------------------- state
VARIABLES
    pc,              \* position of main() / process_phone_list
    env,             \* os.environ restricted to required_vars
    validator,       \* the attributes of self set by __init__
    openai_api_key,  \* the module global openai.api_key
    raised,          \* the exception that left main(), type "none" if none
    phones,          \* process_phone_list: phones
    output_created,  \* the output file exists
    csv_buffer,      \* lines written to csvfile and not yet flushed
    csv_disk,        \* lines of the output file on disk
    results,         \* process_phone_list: results
    i,               \* process_phone_list: i
    call_requests,   \* the `to' of every calls.create request sent
    call,            \* make_call_with_recording: call.sid
    call_sid,        \* validate_phone_number: call_sid
    recording_sid,   \* validate_phone_number: recording_sid
    audio_file,      \* validate_phone_number: audio_file
    transcribed_text,\* validate_phone_number: transcribed_text
    result,          \* validate_phone_number: the returned dict
    files,           \* names of the recording files on the local disk
    summary,         \* the counts logged at the end
    text,            \* classifier check: the text under test
    verdicts         \* classifier check: what the calls made so far returned

vars ==
    << pc, env, validator, openai_api_key, raised, phones, output_created,
       csv_buffer, csv_disk, results, i, call_requests, call, call_sid,
       recording_sid, audio_file, transcribed_text, result, files,
       summary, text, verdicts >>

ctor_vars == << env, validator, openai_api_key >>

batch_vars == << phones, output_created, csv_buffer, csv_disk, results, i, summary >>

number_vars ==
    << call_requests, call, call_sid, recording_sid, audio_file,
       transcribed_text, result, files >>

classify_vars == << text, verdicts >>

NoException == [type |-> "none", names |-> << >>]

\* an object before __init__ assigned anything
NoAttributes ==
    [ twilio_account_sid  |-> None,
      twilio_auth_token   |-> None,
      twilio_phone_number |-> None,
      openai_api_key      |-> None,
      twilio_client       |-> FALSE,
      invalid_phrases     |-> << >>,
      call_delay          |-> 0,
      recording_duration  |-> 0 ]

\* the values an environment variable can have: unset, empty, set
EnvValues == { None, << >>, << 120 >> }

Range(f) == { f[k] : k \in DOMAIN f }

\* os.getenv(var)
getenv(var) == env[var]

\* an exception leaves main(): the process ends
Propagate(exc) ==
    /\ pc' = "crashed"
    /\ raised' = exc

\* ------------------------------------------------------------- __init__
\* lines 26-31
ReadEnvironment ==
    /\ pc = "main"
    /\ validator' =
         [ validator EXCEPT
             !.twilio_account_sid  = getenv("TWILIO_ACCOUNT_SID"),
             !.twilio_auth_token   = getenv("TWILIO_AUTH_TOKEN"),
             !.twilio_phone_number = getenv("TWILIO_PHONE_NUMBER"),
             !.openai_api_key      = getenv("OPENAI_API_KEY") ]
    /\ pc' = "init_clients"
    /\ UNCHANGED << env, openai_api_key, raised, batch_vars, number_vars, classify_vars >>

\* line 34: Client(sid, token) is the provider library; given an absent
\* credential it either builds the client or raises
ClientOutcomes(sid, token) ==
    IF Falsy(sid) \/ Falsy(token) THEN { "built", "TwilioException" } ELSE { "built" }

\* lines 34-35
BuildClients ==
    /\ pc = "init_clients"
    /\ \E o \in ClientOutcomes(validator.twilio_account_sid, validator.twilio_auth_token) :
         IF o = "built"
         THEN /\ validator' = [validator EXCEPT !.twilio_client = TRUE]
              /\ openai_api_key' = validator.openai_api_key
              /\ pc' = "init_settings"
              /\ UNCHANGED raised
         ELSE /\ Propagate([type |-> o, names |-> << >>])
              /\ UNCHANGED << validator, openai_api_key >>
    /\ UNCHANGED << env, batch_vars, number_vars, classify_vars >>

\* lines 38-49
SetSettings ==
    /\ pc = "init_settings"
    /\ validator' =
         [ validator EXCEPT
             !.invalid_phrases    = InvalidPhrases,
             !.call_delay         = call_delay,
             !.recording_duration = recording_duration ]
    /\ pc' = "validate_credentials"
    /\ UNCHANGED << env, openai_api_key, raised, batch_vars, number_vars, classify_vars >>

IsMissing(var) == Falsy(getenv(var))

\* line 60
missing_vars == SelectSeq(required_vars, IsMissing)

\* lines 51, 53-62
ValidateCredentials ==
    /\ pc = "validate_credentials"
    /\ IF missing_vars # << >>
       THEN Propagate([type |-> "ValueError", names |-> missing_vars])
       ELSE /\ pc' = "constructed"
            /\ UNCHANGED raised
    /\ UNCHANGED << ctor_vars, batch_vars, number_vars, classify_vars >>

\* --------------------------------------------------- read_phone_numbers
\* what a cell of the phone column can hold; None is a row shorter than
\* the header (csv.DictReader fills the missing cell with None)
PhoneCells == { None, << >>, << 32 >>, << 49 >>, << 32, 50, 32 >> }

SeqsUpTo(S, n) == UNION { [1..k -> S] : k \in 0..n }

\* the input file: absent, not readable, or a table with or without a
\* phone column
InputFiles ==
    { [kind |-> "missing", has_phone |-> FALSE, cells |-> << >>],
      [kind |-> "unreadable", has_phone |-> FALSE, cells |-> << >>] }
    \cup
    { [kind |-> "table", has_phone |-> h, cells |-> c] :
        h \in BOOLEAN, c \in SeqsUpTo(PhoneCells, MaxRows) }

\* lines 70-72; exc is the exception the loop body raised, if any
RECURSIVE ReadRows(_, _, _)
ReadRows(cells, has_phone, acc) ==
    IF cells = << >> THEN [exc |-> "none", phones |-> acc]
    ELSE IF ~has_phone THEN ReadRows(Tail(cells), has_phone, acc)
    ELSE IF Head(cells) = None THEN [exc |-> "AttributeError", phones |-> acc]
    ELSE IF strip(Head(cells)) # << >>
         THEN ReadRows(Tail(cells), has_phone, Append(acc, strip(Head(cells))))
    ELSE ReadRows(Tail(cells), has_phone, acc)

\* lines 68-75 without the handlers
ReadBody(file) ==
    IF file.kind = "missing" THEN [exc |-> "FileNotFoundError", phones |-> << >>]
    ELSE IF file.kind = "unreadable" THEN [exc |-> "PermissionError", phones |-> << >>]
    ELSE ReadRows(file.cells, file.has_phone, << >>)

\* lines 77-82: which exceptions read_phone_numbers catches
read_except(exc) == exc \in { "FileNotFoundError", "PermissionError", "AttributeError" }

\* lines 64-82: the list returned, or the exception raised to the caller
read_phone_numbers(file) ==
    LET r == ReadBody(file)
    IN  IF r.exc = "none" THEN [raises |-> "none", value |-> r.phones]
        ELSE IF read_except(r.exc) THEN [raises |-> "none", value |-> << >>]
        ELSE [raises |-> r.exc, value |-> << >>]

\* ---------------------------------------------------- process_phone_list
fieldnames == << "phone", "status", "transcribed_text", "call_sid", "timestamp" >>

HeaderLine == [header |-> fieldnames]

\* line 232
ReadPhoneNumbers ==
    /\ pc = "constructed"
    /\ \E file \in InputFiles :
         LET r == read_phone_numbers(file)
         IN  IF r.raises = "none"
             THEN /\ phones' = r.value
                  /\ pc' = "check_phones"
                  /\ UNCHANGED raised
             ELSE /\ Propagate([type |-> r.raises, names |-> << >>])
                  /\ UNCHANGED phones
    /\ UNCHANGED << ctor_vars, output_created, csv_buffer, csv_disk, results, i,
                    summary, number_vars, classify_vars >>

\* line 234 with the test turned round
NoPhones_inverted(ps) == ps # << >>

\* line 234: `not phones'
NoPhones(ps) == ps = << >>

\* lines 234-236
CheckPhones ==
    /\ pc = "check_phones"
    /\ pc' = IF NoPhones(phones) THEN "returned" ELSE "open_output"
    /\ UNCHANGED << ctor_vars, raised, batch_vars, number_vars, classify_vars >>

\* lines 238-245
OpenOutput ==
    /\ pc = "open_output"
    /\ output_created' = TRUE
    /\ results' = << >>
    /\ csv_disk' = << >>
    /\ csv_buffer' = << HeaderLine >>
    /\ i' = 1
    /\ pc' = "loop"
    /\ UNCHANGED << ctor_vars, raised, phones, summary, number_vars, classify_vars >>

\* ------------------------------------------------ the provider's names
\* "CA<n>", the sid the provider gives to the n-th call request
CallSid(n) == << 67, 65, 48 + n >>

\* "RE<n>", the sid of the recording of the n-th call
RecordingSid(n) == << 82, 69, 48 + n >>

\* line 136: f"recording_{recording_sid}.mp3"
Filename(sid) == << 114, 101, 99, 111, 114, 100, 105, 110, 103, 95 >> \o sid \o << 46, 109, 112, 51 >>

\* 'Помилка дзвінка'
CallErrorText == << 1055, 1086, 1084, 1080, 1083, 1082, 1072, 32, 1076, 1079, 1074, 1110, 1085, 1082, 1072 >>

\* what the speech service can return as the text of a recording
Transcripts ==
    { << >>,
      << 97, 98 >>,
      << 72, 101, 108, 108, 111 >>,
      << 1053, 1077, 32, 1030, 1089, 1085, 1091, 1108 >> }

\* an exception leaves the `with' block of process_phone_list: the file is
\* closed, which writes the buffered lines, and main() ends
PropagateFromLoop(exc) ==
    /\ Propagate(exc)
    /\ csv_disk' = csv_disk \o csv_buffer
    /\ csv_buffer' = << >>

\* --------------------------------------------- make_call_with_recording
\* the handlers with `except Exception' left out
make_call_except_twilio_only(exc) == exc = "TwilioRestException"

\* lines 116-121: which exceptions make_call_with_recording catches
make_call_except(exc) == exc \in { "TwilioRestException", "Exception" }

\* line 94 asking a second time when the first request failed
RequestsSent_retry(requests, phone_number, o) ==
    IF o = "ok" THEN Append(requests, phone_number)
    ELSE Append(Append(requests, phone_number), phone_number)

\* line 94: one calls.create request for each call of make_call_with_recording
RequestsSent(requests, phone_number, o) == Append(requests, phone_number)

\* lines 247-250, 195-198, 94-105: the next number's call is requested
PlaceCall ==
    /\ pc = "loop"
    /\ i <= Len(phones)
    /\ audio_file' = None
    /\ transcribed_text' = None
    /\ result' = None
    /\ \E o \in { "ok", "TwilioRestException", "Exception" } :
         /\ call_requests' = RequestsSent(call_requests, phones[i], o)
         /\ IF o = "ok"
            THEN /\ call' = CallSid(Len(call_requests) + 1)
                 /\ call_sid' = None
                 /\ recording_sid' = None
                 /\ pc' = "wait"
                 /\ UNCHANGED << raised, csv_buffer, csv_disk >>
            ELSE IF make_call_except(o)
            THEN /\ call' = None
                 /\ call_sid' = None
                 /\ recording_sid' = None
                 /\ pc' = "call_returned"
                 /\ UNCHANGED << raised, csv_buffer, csv_disk >>
            ELSE /\ PropagateFromLoop([type |-> o, names |-> << >>])
                 /\ UNCHANGED << call, call_sid, recording_sid >>
    /\ UNCHANGED << ctor_vars, phones, output_created, results, i, summary,
                    files, classify_vars >>

\* lines 111-114: recordings[0].sid if recordings else None
ListedResult(o, sid) ==
    [ call_sid      |-> sid,
      recording_sid |-> IF o = "found" THEN RecordingSid(sid[3] - 48) ELSE None ]

\* lines 108-121: the wait, then the recordings of the call are listed
ListRecordings ==
    /\ pc = "wait"
    /\ \E o \in { "found", "empty", "TwilioRestException", "Exception" } :
         IF o \in { "found", "empty" }
         THEN /\ call_sid' = ListedResult(o, call).call_sid
              /\ recording_sid' = ListedResult(o, call).recording_sid
              /\ pc' = "call_returned"
              /\ UNCHANGED << raised, csv_buffer, csv_disk >>
         ELSE IF make_call_except(o)
         THEN /\ call_sid' = None
              /\ recording_sid' = None
              /\ pc' = "call_returned"
              /\ UNCHANGED << raised, csv_buffer, csv_disk >>
         ELSE /\ PropagateFromLoop([type |-> o, names |-> << >>])
              /\ UNCHANGED << call_sid, recording_sid >>
    /\ UNCHANGED << ctor_vars, phones, output_created, results, i, summary,
                    call_requests, call, audio_file, transcribed_text, result,
                    files, classify_vars >>

\* ------------------------------------------------ validate_phone_number
Row(phone, status, txt, sid) ==
    [phone |-> phone, status |-> status, transcribed_text |-> txt, call_sid |-> sid]

\* lines 200-207 with the row of a failed call left out of the output
ReturnError_norow ==
    /\ pc = "call_returned"
    /\ Falsy(call_sid)
    /\ result' = Row(phones[i], "ERROR", CallErrorText, None)
    /\ pc' = "pause"
    /\ UNCHANGED << ctor_vars, raised, batch_vars, call_requests, call, call_sid,
                    recording_sid, audio_file, transcribed_text, files, classify_vars >>

\* lines 200-207
ReturnError ==
    /\ pc = "call_returned"
    /\ Falsy(call_sid)
    /\ result' = Row(phones[i], "ERROR", CallErrorText, None)
    /\ pc' = "append"
    /\ UNCHANGED << ctor_vars, raised, batch_vars, call_requests, call, call_sid,
                    recording_sid, audio_file, transcribed_text, files, classify_vars >>

\* line 146: which exceptions download_recording catches
download_except(exc) == exc = "Exception"

\* lines 210, 123-148
DownloadRecording ==
    /\ pc = "call_returned"
    /\ ~Falsy(call_sid)
    /\ IF Falsy(recording_sid)
       THEN /\ audio_file' = None
            /\ pc' = "transcribe"
            /\ UNCHANGED << files, raised, csv_buffer, csv_disk >>
       ELSE \E o \in { "200", "404", "Exception" } :
              IF o = "200"
              THEN /\ files' = files \cup { Filename(recording_sid) }
                   /\ audio_file' = Filename(recording_sid)
                   /\ pc' = "transcribe"
                   /\ UNCHANGED << raised, csv_buffer, csv_disk >>
              ELSE IF o = "404" \/ download_except(o)
              THEN /\ audio_file' = None
                   /\ pc' = "transcribe"
                   /\ UNCHANGED << files, raised, csv_buffer, csv_disk >>
              ELSE /\ PropagateFromLoop([type |-> o, names |-> << >>])
                   /\ UNCHANGED << files, audio_file >>
    /\ UNCHANGED << ctor_vars, phones, output_created, results, i, summary,
                    call_requests, call, call_sid, recording_sid,
                    transcribed_text, result, classify_vars >>

\* line 171: which exceptions transcribe_audio catches
transcribe_except(exc) == exc = "Exception"

\* lines 155-173: the speech service answers t or raises; the removal of
\* the file that was just read is taken to succeed
TranscribeResult(o, t, file, fs) ==
    IF o = "ok"
    THEN [raises |-> "none", value |-> lower(t), files |-> fs \ { file }]
    ELSE IF transcribe_except(o)
    THEN [raises |-> "none", value |-> << >>, files |-> fs]
    ELSE [raises |-> o, value |-> << >>, files |-> fs]

\* lines 213, 150-173; the file may have been removed by someone else
\* between the download and os.path.exists
TranscribeAudio ==
    /\ pc = "transcribe"
    /\ IF Falsy(audio_file)
       THEN /\ transcribed_text' = << >>
            /\ pc' = "classify"
            /\ UNCHANGED << files, raised, csv_buffer, csv_disk >>
       ELSE \E exists \in BOOLEAN :
              IF ~exists
              THEN /\ files' = files \ { audio_file }
                   /\ transcribed_text' = << >>
                   /\ pc' = "classify"
                   /\ UNCHANGED << raised, csv_buffer, csv_disk >>
              ELSE \E o \in { "ok", "Exception" }, t \in Transcripts :
                     LET r == TranscribeResult(o, t, audio_file, files)
                     IN  IF r.raises = "none"
                         THEN /\ files' = r.files
                              /\ transcribed_text' = r.value
                              /\ pc' = "classify"
                              /\ UNCHANGED << raised, csv_buffer, csv_disk >>
                         ELSE /\ PropagateFromLoop([type |-> r.raises, names |-> << >>])
                              /\ UNCHANGED << files, transcribed_text >>
    /\ UNCHANGED << ctor_vars, phones, output_created, results, i, summary,
                    call_requests, call, call_sid, recording_sid, audio_file,
                    result, classify_vars >>

\* line 217 with the two statuses exchanged
StatusOf_swapped(is_valid) == IF is_valid THEN "INVALID" ELSE "VALID"

\* line 217
StatusOf(is_valid) == IF is_valid THEN "VALID" ELSE "INVALID"

\* lines 216-228
Classify ==
    /\ pc = "classify"
    /\ result' =
         Row(phones[i],
             StatusOf(is_valid_number(validator.invalid_phrases, transcribed_text)),
             transcribed_text, call_sid)
    /\ pc' = "append"
    /\ UNCHANGED << ctor_vars, raised, batch_vars, call_requests, call, call_sid,
                    recording_sid, audio_file, transcribed_text, files, classify_vars >>

\* ------------------------------------------- process_phone_list, the loop
\* lines 251-254: results.append(result); writer.writerow(result)
WriteRow ==
    /\ pc = "append"
    /\ results' = Append(results, result)
    /\ csv_buffer' = Append(csv_buffer, result)
    /\ pc' = "flush"
    /\ UNCHANGED << ctor_vars, raised, phones, output_created, csv_disk, i, summary,
                    number_vars, classify_vars >>

\* line 255 left out: the lines stay in the buffer until the file is closed
Flush_missing ==
    /\ pc = "flush"
    /\ pc' = "pause"
    /\ UNCHANGED << ctor_vars, raised, batch_vars, number_vars, classify_vars >>

\* line 255: csvfile.flush()
Flush ==
    /\ pc = "flush"
    /\ csv_disk' = csv_disk \o csv_buffer
    /\ csv_buffer' = << >>
    /\ pc' = "pause"
    /\ UNCHANGED << ctor_vars, raised, phones, output_created, results, i, summary,
                    number_vars, classify_vars >>

\* lines 258-260 and the step of the for loop
Pause ==
    /\ pc = "pause"
    /\ i' = i + 1
    /\ pc' = "loop"
    /\ UNCHANGED << ctor_vars, raised, phones, output_created, csv_buffer, csv_disk,
                    results, summary, number_vars, classify_vars >>

\* the for loop is exhausted and the `with' block closes the file
CloseOutput ==
    /\ pc = "loop"
    /\ i > Len(phones)
    /\ csv_disk' = csv_disk \o csv_buffer
    /\ csv_buffer' = << >>
    /\ pc' = "summary"
    /\ UNCHANGED << ctor_vars, raised, phones, output_created, results, i, summary,
                    number_vars, classify_vars >>

\* sum(1 for r in results if r['status'] == status)
Count(rs, status) == Cardinality({ k \in DOMAIN rs : rs[k].status = status })

\* lines 263-271
Summary ==
    /\ pc = "summary"
    /\ summary' =
         [ valid_count   |-> Count(results, "VALID"),
           invalid_count |-> Count(results, "INVALID"),
           error_count   |-> Count(results, "ERROR") ]
    /\ pc' = "done"
    /\ UNCHANGED << ctor_vars, raised, phones, output_created, csv_buffer, csv_disk,
                    results, i, number_vars, classify_vars >>

NoSummary == [valid_count |-> 0, invalid_count |-> 0, error_count |-> 0]

\* ------------------------------------------------------------------ main
\* process_phone_list has not started
NotStarted ==
    /\ raised = NoException
    /\ phones = << >>
    /\ output_created = FALSE
    /\ csv_buffer = << >>
    /\ csv_disk = << >>
    /\ results = << >>
    /\ i = 0
    /\ call_requests = << >>
    /\ call = None
    /\ call_sid = None
    /\ recording_sid = None
    /\ audio_file = None
    /\ transcribed_text = None
    /\ result = None
    /\ files = { }
    /\ summary = NoSummary

\* the process starts with some environment and nothing done
Init ==
    /\ pc = "main"
    /\ env \in [Range(required_vars) -> EnvValues]
    /\ validator = NoAttributes
    /\ openai_api_key = None
    /\ NotStarted
    /\ text = << >>
    /\ verdicts = << >>

Next ==
    \/ ReadEnvironment
    \/ BuildClients
    \/ SetSettings
    \/ ValidateCredentials
    \/ ReadPhoneNumbers
    \/ CheckPhones
    \/ OpenOutput
    \/ PlaceCall
    \/ ListRecordings
    \/ ReturnError
    \/ DownloadRecording
    \/ TranscribeAudio
    \/ Classify
    \/ WriteRow
    \/ Flush
    \/ Pause
    \/ CloseOutput
    \/ Summary

Spec == Init /\ [][Next]_vars

\* the program runs on: a step that can be taken is taken
FairSpec == Spec /\ WF_vars(Next)

\* ------------------------------------------- is_valid_number on its own
\* self after a construction that succeeded
Constructed ==
    [ twilio_account_sid  |-> << 120 >>,
      twilio_auth_token   |-> << 120 >>,
      twilio_phone_number |-> << 120 >>,
      openai_api_key      |-> << 120 >>,
      twilio_client       |-> TRUE,
      invalid_phrases     |-> InvalidPhrases,
      call_delay          |-> call_delay,
      recording_duration  |-> recording_duration ]

\* space, tab, a, A, Cyrillic en
ShortAlphabet == { 32, 9, 97, 65, 1085 }

AffixAlphabet == { 32, 97 }

\* each phrase as it is, in capitals, capitalised, and with its last or
\* first character missing
PhraseVariants ==
    UNION { { InvalidPhrases[k],
              upper(InvalidPhrases[k]),
              << UpperChar(InvalidPhrases[k][1]) >> \o Tail(InvalidPhrases[k]),
              SubSeq(InvalidPhrases[k], 1, Len(InvalidPhrases[k]) - 1),
              Tail(InvalidPhrases[k]) } : k \in DOMAIN InvalidPhrases }

\* the texts the classifier is tried on
Texts ==
    SeqsUpTo(ShortAlphabet, MaxShortLen)
    \cup
    { a \o v \o b : a \in SeqsUpTo(AffixAlphabet, MaxAffix),
                   v \in PhraseVariants,
                   b \in SeqsUpTo(AffixAlphabet, MaxAffix) }

InitClassify ==
    /\ pc = "constructed"
    /\ env = [v \in Range(required_vars) |-> << 120 >>]
    /\ openai_api_key = << 120 >>
    /\ NotStarted
    /\ validator = Constructed
    /\ text \in Texts
    /\ verdicts = << >>

\* one call of self.is_valid_number(text); the validator is called twice
CallIsValidNumber ==
    /\ Len(verdicts) < 2
    /\ verdicts' = Append(verdicts, is_valid_number(validator.invalid_phrases, text))
    /\ UNCHANGED << pc, ctor_vars, raised, batch_vars, number_vars, text >>

NextClassify == CallIsValidNumber

SpecClassify == InitClassify /\ [][NextClassify]_vars

\* ---------------------------------------------------------- properties
\* the lines of the output file after the header line
DataRows(lines) == IF lines = << >> THEN << >> ELSE Tail(lines)

\* the positions at which validate_phone_number is at work on phones[i]
InPipeline == pc \in { "wait", "call_returned", "transcribe", "classify", "append" }

\* p occurs in s, said without a scan
Occurs(p, s) ==
    \E k \in 1..(Len(s) - Len(p) + 1) : SubSeq(s, k, k + Len(p) - 1) = p

\* the length of s without its leading and trailing whitespace
TrimmedLen(s) ==
    LET inked == { k \in 1..Len(s) : ~IsSpace(s[k]) }
    IN  IF inked = { } THEN 0
        ELSE (CHOOSE k \in inked : \A j \in inked : j <= k)
             - (CHOOSE k \in inked : \A j \in inked : k <= j) + 1

\* C1: when process_phone_list has run to its end on a non-empty list, the
\* output file holds the header and then exactly one row per number read,
\* the k-th row carrying the k-th number, and nothing is left unwritten.
C1_OneRowPerNumberInOrder ==
    pc = "done" =>
        /\ csv_buffer = << >>
        /\ csv_disk # << >>
        /\ Head(csv_disk) = HeaderLine
        /\ Len(DataRows(csv_disk)) = Len(phones)
        /\ \A k \in 1..Len(phones) : DataRows(csv_disk)[k].phone = phones[k]

\* a finished run over a list with a repeated number whose first call failed
C1_Witness ==
    /\ pc = "done"
    /\ Len(phones) = 3
    /\ phones[1] = phones[3]
    /\ phones[1] # phones[2]
    /\ DataRows(csv_disk)[1].status = "ERROR"
    /\ DataRows(csv_disk)[3].status = "VALID"

\* C2 as claimed: the row of a number has status ERROR exactly when the
\* provider issued no call identifier for it, and always has it when
\* make_call_with_recording returned none.
C2_ErrorIffNoCallPlaced ==
    pc = "append" =>
        /\ (result.status = "ERROR") <=> (call = None)
        /\ Falsy(call_sid) => result.status = "ERROR"

\* C3: a number whose call returned an identifier and whose transcript is
\* empty gets the status INVALID and a row carrying that identifier.
C3_EmptyTranscriptIsInvalid ==
    (pc = "append" /\ ~Falsy(call_sid) /\ transcribed_text = << >>) =>
        /\ result.status = "INVALID"
        /\ result.call_sid = call_sid
        /\ result.call_sid = call
        /\ result.transcribed_text = << >>

\* the recording was downloaded and the transcript is empty all the same
C3_Witness ==
    /\ pc = "append"
    /\ ~Falsy(call_sid)
    /\ ~Falsy(audio_file)
    /\ transcribed_text = << >>
    /\ result.status = "INVALID"

\* C4: once the output file is open no exception leaves the loop, and the
\* run goes on to the summary with a result for every number, whichever
\* stages failed for whichever numbers.
C4_BatchRunsToSummary ==
    /\ [](raised.type \in { "none", "ValueError", "TwilioException" })
    /\ (pc = "open_output") ~> (pc = "done" /\ Len(results) = Len(phones))

\* a finished run in which the call of the first number failed, the second
\* number's recording was never obtained and the third went through
C4_Witness ==
    /\ pc = "done"
    /\ Len(results) = 3
    /\ results[1].status = "ERROR"
    /\ results[2].status = "INVALID"
    /\ results[2].transcribed_text = << >>
    /\ results[3].status = "VALID"
    /\ summary.error_count = 1

\* C5: read_phone_numbers raises for no input file and returns the empty
\* list for a file that is missing, unreadable or without a non-blank phone
\* cell; on the empty list process_phone_list returns with no output file
\* created, nothing written and no call requested.
C5_EmptyInputNoOutput ==
    /\ pc = "check_phones" =>
         \A file \in InputFiles :
            /\ read_phone_numbers(file).raises = "none"
            /\ ( \/ file.kind # "table"
                 \/ ~file.has_phone
                 \/ \A k \in DOMAIN file.cells :
                       file.cells[k] = None \/ TrimmedLen(file.cells[k]) = 0 )
               => read_phone_numbers(file).value = << >>
    /\ raised.type \notin { "FileNotFoundError", "PermissionError", "AttributeError" }
    /\ (phones = << >> /\ pc \notin { "main", "init_clients", "init_settings",
                                     "validate_credentials", "constructed", "crashed" })
         => /\ pc \in { "check_phones", "returned" }
            /\ ~output_created
            /\ csv_buffer = << >>
            /\ csv_disk = << >>
            /\ call_requests = << >>

\* process_phone_list has returned on an empty list
C5_Witness ==
    /\ pc = "returned"
    /\ phones = << >>
    /\ ~output_created
    /\ call_requests = << >>

\* C6 as claimed: from the return of transcribe_audio until the row is on
\* disk, the file download_recording stored for the number does not exist.
C6_ArtifactDeleted ==
    (pc \in { "classify", "append", "flush" } /\ ~Falsy(audio_file)) =>
        audio_file \notin files

\* C7: is_valid_number(text) is false exactly when text is empty, or its
\* lower-cased form contains a denylist phrase, or it has fewer than 3
\* characters once trimmed; a second call returns the same, and the calls
\* leave the validator as it was.
C7_ClassifierContract ==
    /\ \A k \in DOMAIN verdicts :
          verdicts[k] =
             ~ ( \/ text = << >>
                 \/ \E n \in DOMAIN InvalidPhrases :
                       Occurs(InvalidPhrases[n], [j \in DOMAIN text |-> LowerChar(text[j])])
                 \/ TrimmedLen(text) < 3 )
    /\ Len(verdicts) = 2 => verdicts[1] = verdicts[2]
    /\ validator = Constructed

\* a text that holds a phrase in capitals between other characters has
\* been classified twice
C7_Witness ==
    /\ Len(verdicts) = 2
    /\ Len(text) > 8
    /\ ~Occurs(InvalidPhrases[8], text)
    /\ Occurs(InvalidPhrases[8], lower(text))
    /\ text[1] = 97
    /\ verdicts[1] = FALSE

\* C8 as claimed: with a required variable missing, construction builds no
\* client, and it ends in a ValueError naming every missing variable.
C8_FailsBeforeAnyEffect ==
    missing_vars # << >> =>
        /\ ~validator.twilio_client
        /\ pc = "crashed" =>
              /\ raised.type = "ValueError"
              /\ raised.names = missing_vars

\* C9: the rows on disk are the results of the first numbers in input
\* order, at most the row of the number at hand is not yet on disk, and a
\* call is requested only when the rows of all earlier numbers are on disk.
C9_RowOnDiskBeforeNextCall ==
    LET rows == DataRows(csv_disk)
    IN  /\ Len(rows) <= Len(results)
        /\ Len(results) <= Len(rows) + 1
        /\ \A k \in 1..Len(rows) : rows[k] = results[k] /\ rows[k].phone = phones[k]
        /\ Len(call_requests) <= Len(rows) + 1
        /\ pc \in { "pause", "loop", "summary", "done" } => Len(rows) = Len(results)

\* the call of the second number is under way with the first row on disk
C9_Witness ==
    /\ pc = "wait"
    /\ i = 2
    /\ Len(call_requests) = 2
    /\ Len(DataRows(csv_disk)) = 1
    /\ csv_buffer = << >>

\* C10: the call requests sent are the numbers of the list, one request per
\* entry and in order: one for each entry already begun and none beyond.
C10_OneCallPerEntry ==
    /\ Len(call_requests) <= Len(phones)
    /\ \A k \in 1..Len(call_requests) : call_requests[k] = phones[k]
    /\ InPipeline => Len(call_requests) = i
    /\ pc \in { "flush", "pause" } => Len(call_requests) = i
    /\ pc = "loop" => Len(call_requests) = i - 1
    /\ pc \in { "summary", "done" } => call_requests = phones

\* a finished run over a list naming one number twice, the first call of
\* which failed
C10_Witness ==
    /\ pc = "done"
    /\ Len(phones) >= 2
    /\ phones[1] = phones[2]
    /\ results[1].status = "ERROR"
    /\ call_requests = phones

====
